---- MODULE Spec2Model ----
(***************************************************************************)
(* Anomaly-risk pipeline of the voting front end:                          *)
(*   - the edge function anomaly-detection (reply parsing, risk scoring),  *)
(*   - the useAnomalyDetection hook (session aggregator),                  *)
(*   - the WebcamMonitor component (camera lifecycle, timers, cycles),     *)
(*   - the vote submission handlers of the Vote page and ElectionVoting.   *)
(***************************************************************************)
EXTENDS Integers, Sequences, FiniteSets, TLC

VARIABLES
    \* ---- WebcamMonitor component ----
    mounted,            \* the component is mounted
    isActive,           \* useState isActive
    hasPermission,      \* useState hasPermission: "null" | "true" | "false"
    previewVisible,     \* useState previewVisible
    streamRef,          \* streamRef.current: 0 = null, else the id of the held stream
    intervalRef,        \* intervalRef.current holds an armed interval
    initTimeout,        \* the 1s initial timeout is pending
    videoSrc,           \* srcObject of the mounted <video> element (0 = none)
    pendingStarts,      \* startCamera calls awaiting getUserMedia
    liveStreams,        \* acquired streams whose tracks have not been stopped
    acquired,           \* number of streams acquired so far
    \* ---- useAnomalyDetection hook ----
    state,              \* useState<AnomalyState>
    voteMetadata,       \* useState<VoteMetadata>
    previousStateRef,   \* previousStateRef.current
    analysisCountRef,   \* analysisCountRef.current
    flagHistoryRef,     \* flagHistoryRef.current
    maxRiskScoreRef,    \* maxRiskScoreRef.current
    \* ---- classification calls in flight, subscriber ----
    inflight,           \* supabase.functions.invoke calls not yet resolved
    issued,             \* number of classification requests started so far
    riskUpdates,        \* number of onRiskUpdate calls made
    lastRiskUpdate,     \* argument of the latest onRiskUpdate call
    lastResult,         \* what the latest finished analyzeFrame call returned
    lastOutcome,        \* how its invoke call ended: "none" | "ok" | a failure kind
    \* ---- history ----
    epoch,              \* number of reset() calls so far
    applied,            \* the reports folded in since the last reset(), in order
    \* ---- edge function taken alone ----
    srvUpstream,        \* the model service answered: "ok" | "error"
    srvReply,           \* the text of the model's reply
    srvPrev,            \* previousState of the request body
    srvStatus,          \* HTTP status of the handler's answer (0 = not yet answered)
    srvResult,          \* the AnalysisResult the handler answered
    \* ---- Vote page / ElectionVoting ----
    page,               \* the voting component that is mounted
    connected,          \* connected (Vote) / isConnected (ElectionVoting)
    selected,           \* an election is selected (selectedElectionId / electionId)
    loading,            \* loadingElection (Vote) / loading (ElectionVoting)
    election,           \* the loaded election: "none" | "active" | "ended"
    govtIdAuthenticated,\* ElectionVoting: govtIdAuthenticated
    emailCollected,     \* ElectionVoting: emailCollected
    voterName,          \* ElectionVoting: voterName, "" or a name
    hasVoted,           \* useState hasVoted
    voting,             \* voting (Vote) / isVoting (ElectionVoting)
    pendingTx,          \* contract.vote transactions not yet settled
    submitted,          \* contract.vote calls made so far
    votesRecorded       \* vote transactions confirmed on chain

monitorVars == <<mounted, isActive, hasPermission, previewVisible, streamRef,
                 intervalRef, initTimeout, videoSrc, pendingStarts, liveStreams,
                 acquired>>
hookVars == <<state, voteMetadata, previousStateRef, analysisCountRef,
              flagHistoryRef, maxRiskScoreRef>>
netVars == <<inflight, issued, riskUpdates, lastRiskUpdate, lastResult,
             lastOutcome>>
histVars == <<epoch, applied>>
srvVars == <<srvUpstream, srvReply, srvPrev, srvStatus, srvResult>>
voteVars == <<page, connected, selected, loading, election, govtIdAuthenticated,
              emailCollected, voterName, hasVoted, voting, pendingTx, submitted,
              votesRecorded>>
vars == <<monitorVars, hookVars, netVars, histVars, srvVars, voteVars>>

----------------------------------------------------------------------------
\* Bounds of the model

\* classification requests started per run
MaxRequests == 2
\* startCamera calls per run
MaxStarts == 2
\* largest face count a reply reports
MaxFaces == 2
\* vote transactions submitted per run
MaxVotes == 2

----------------------------------------------------------------------------
\* Edge function: reply parsing

FieldNames == {"faceCount", "cameraBlocked", "highMotion", "environmentStable"}

\* A parsed payload.  `missing` holds the keys the payload does not carry; a
\* missing key reads as undefined and its slot holds 0 / FALSE.
Analysis(fc, cb, hm, es, miss) ==
    [faceCount |-> fc, cameraBlocked |-> cb, highMotion |-> hm,
     environmentStable |-> es, confidence |-> 50, missing |-> miss]

DefaultSafe == Analysis(1, FALSE, FALSE, TRUE, {})

Has(a, f) == f \notin a.missing

\* Every payload JSON.parse can hand over, the slots of missing keys normalised.
AllAnalyses ==
    { Analysis(IF "faceCount" \in miss THEN 0 ELSE fc,
               cb /\ "cameraBlocked" \notin miss,
               hm /\ "highMotion" \notin miss,
               es /\ "environmentStable" \notin miss,
               miss) :
        fc \in 0..MaxFaces, cb \in BOOLEAN, hm \in BOOLEAN, es \in BOOLEAN,
        miss \in SUBSET FieldNames }

\* The model's reply text: "json" holds one parseable payload between the first
\* "{" and the last "}", "nobraces" holds no braces (or is empty), "badjson" has
\* braces around text JSON.parse rejects.
Reply(kind, a) == [kind |-> kind, payload |-> a]

AllReplies ==
    { Reply("json", a) : a \in AllAnalyses } \cup
    { Reply("nobraces", DefaultSafe), Reply("badjson", DefaultSafe) }

\* mutant: an unparseable reply is read as a frame without a face
ParseReply_zeroFaces(r) ==
    IF r.kind = "json" THEN r.payload ELSE Analysis(0, FALSE, FALSE, TRUE, {})

ParseReply(r) ==
    IF r.kind = "json" THEN r.payload ELSE DefaultSafe

----------------------------------------------------------------------------
\* Edge function: risk scoring

WeightMultipleFaces == 40
WeightNoFace == 20
WeightFaceLost == 30
WeightCameraBlocked == 30
WeightHighMotion == 20
WeightUnstable == 10
RiskCap == 100
FlaggedAbove == 50
WarningAbove == 25

NoPrior == [present |-> FALSE, faceDetected |-> FALSE, faceCount |-> 0]
Prior(fd, fc) == [present |-> TRUE, faceDetected |-> fd, faceCount |-> fc]

AllPriors == {NoPrior} \cup { Prior(fc >= 1, fc) : fc \in 0..MaxFaces }

MultipleFaces(a) == Has(a, "faceCount") /\ a.faceCount > 1
NoFace(a) == Has(a, "faceCount") /\ a.faceCount = 0
FaceLost(a, prev) == prev.present /\ prev.faceDetected /\ NoFace(a)
CameraBlocked(a) == Has(a, "cameraBlocked") /\ a.cameraBlocked
HighMotion(a) == Has(a, "highMotion") /\ a.highMotion
Unstable(a) == ~(Has(a, "environmentStable") /\ a.environmentStable)

MultipleFacesFlag(n) == "Multiple faces detected: " \o ToString(n)

Min(a, b) == IF a < b THEN a ELSE b
Max(a, b) == IF a > b THEN a ELSE b

\* mutant: an else-if chain, only the first matching rule contributes
RawScore_firstMatch(a, prev) ==
    IF MultipleFaces(a) THEN WeightMultipleFaces
    ELSE IF NoFace(a) THEN WeightNoFace
    ELSE IF FaceLost(a, prev) THEN WeightFaceLost
    ELSE IF CameraBlocked(a) THEN WeightCameraBlocked
    ELSE IF HighMotion(a) THEN WeightHighMotion
    ELSE IF Unstable(a) THEN WeightUnstable
    ELSE 0

RawScore(a, prev) ==
      (IF MultipleFaces(a) THEN WeightMultipleFaces ELSE 0)
    + (IF NoFace(a) THEN WeightNoFace ELSE 0)
    + (IF FaceLost(a, prev) THEN WeightFaceLost ELSE 0)
    + (IF CameraBlocked(a) THEN WeightCameraBlocked ELSE 0)
    + (IF HighMotion(a) THEN WeightHighMotion ELSE 0)
    + (IF Unstable(a) THEN WeightUnstable ELSE 0)

\* mutant: the cap of line 168 is left out
RiskScore_uncapped(a, prev) == RawScore(a, prev)

RiskScore(a, prev) == Min(RawScore(a, prev), RiskCap)

\* mutant: the face-lost flag is pushed before the no-face flag
AnomalyFlags_lostFirst(a, prev) ==
       (IF MultipleFaces(a) THEN <<MultipleFacesFlag(a.faceCount)>> ELSE <<>>)
    \o (IF FaceLost(a, prev) THEN <<"Face suddenly disappeared">> ELSE <<>>)
    \o (IF NoFace(a) THEN <<"No face detected">> ELSE <<>>)
    \o (IF CameraBlocked(a) THEN <<"Camera appears blocked">> ELSE <<>>)
    \o (IF HighMotion(a) THEN <<"Unusual motion detected">> ELSE <<>>)
    \o (IF Unstable(a) THEN <<"Environment instability detected">> ELSE <<>>)

AnomalyFlags(a, prev) ==
       (IF MultipleFaces(a) THEN <<MultipleFacesFlag(a.faceCount)>> ELSE <<>>)
    \o (IF NoFace(a) THEN <<"No face detected">> ELSE <<>>)
    \o (IF FaceLost(a, prev) THEN <<"Face suddenly disappeared">> ELSE <<>>)
    \o (IF CameraBlocked(a) THEN <<"Camera appears blocked">> ELSE <<>>)
    \o (IF HighMotion(a) THEN <<"Unusual motion detected">> ELSE <<>>)
    \o (IF Unstable(a) THEN <<"Environment instability detected">> ELSE <<>>)

\* mutant: the tiers of lines 172-176 with inclusive lower bounds
StatusOf_inclusive(riskScore) ==
    IF riskScore >= FlaggedAbove THEN "flagged"
    ELSE IF riskScore >= WarningAbove THEN "warning"
    ELSE "normal"

StatusOf(riskScore) ==
    IF riskScore > FlaggedAbove THEN "flagged"
    ELSE IF riskScore > WarningAbove THEN "warning"
    ELSE "normal"

\* The AnalysisResult as the client receives it.  `absent` holds the keys whose
\* value was undefined and which JSON.stringify therefore dropped; faceLost is
\* undefined when the request carried no previousState.
AnalysisResult(a, prev) ==
    [ok |-> TRUE,
     faceCount |-> a.faceCount,
     faceDetected |-> Has(a, "faceCount") /\ a.faceCount >= 1,
     faceLost |-> FaceLost(a, prev),
     cameraBlocked |-> a.cameraBlocked,
     highMotion |-> a.highMotion,
     anomalyFlags |-> AnomalyFlags(a, prev),
     riskScore |-> RiskScore(a, prev),
     status |-> StatusOf(RiskScore(a, prev)),
     absent |-> (a.missing \cap {"faceCount", "cameraBlocked", "highMotion"})
                \cup (IF prev.present THEN {} ELSE {"faceLost"})]

\* No AnalysisResult: the value of analyzeFrame's `return null`.
NoResult ==
    [ok |-> FALSE, faceCount |-> 0, faceDetected |-> FALSE, faceLost |-> FALSE,
     cameraBlocked |-> FALSE, highMotion |-> FALSE, anomalyFlags |-> <<>>,
     riskScore |-> 0, status |-> "normal", absent |-> {}]

Serve(r, prev) == AnalysisResult(ParseReply(r), prev)

----------------------------------------------------------------------------
\* useAnomalyDetection hook

initialState ==
    [faceCount |-> 0, faceDetected |-> FALSE, faceLost |-> FALSE,
     cameraBlocked |-> FALSE, highMotion |-> FALSE, environmentStable |-> TRUE,
     anomalyFlags |-> <<>>, riskScore |-> 0, status |-> "idle",
     isAnalyzing |-> FALSE, error |-> "null", absent |-> {}]

initialVoteMetadata ==
    [riskScore |-> 0, anomalyFlags |-> FALSE, flagHistory |-> <<>>,
     analysisCount |-> 0, maxRiskScore |-> 0]

SeqToSet(s) == { s[i] : i \in 1..Len(s) }

\* [...new Set(s)]: the distinct elements of s in order of first occurrence
Unique(s) ==
    LET upTo[i \in 0..Len(s)] ==
            IF i = 0 THEN <<>>
            ELSE IF \E j \in 1..(i - 1) : s[j] = s[i] THEN upTo[i - 1]
            ELSE Append(upTo[i - 1], s[i])
    IN upTo[Len(s)]

\* mutant: the snapshot hands out the stored history as it is
VoteRiskData_rawHistory(maxRisk, flagHistory, analysisCount) ==
    [riskScore |-> maxRisk,
     anomalyFlags |-> Len(flagHistory) > 0,
     flagDetails |-> flagHistory,
     analysisCount |-> analysisCount,
     isFlagged |-> maxRisk > FlaggedAbove]

\* getVoteRiskData() over given ref values
VoteRiskData(maxRisk, flagHistory, analysisCount) ==
    [riskScore |-> maxRisk,
     anomalyFlags |-> Len(flagHistory) > 0,
     flagDetails |-> Unique(flagHistory),
     analysisCount |-> analysisCount,
     isFlagged |-> maxRisk > FlaggedAbove]

getVoteRiskData == VoteRiskData(maxRiskScoreRef, flagHistoryRef, analysisCountRef)

NoRiskUpdate == VoteRiskData(0, <<>>, 0)

\* the refs after analyzeFrame folded `data` into them (lines 449-460)
FoldPrevious(data) == Prior(data.faceDetected, data.faceCount)
\* mutant: a report is counted twice
FoldCount_twice(count) == count + 2

FoldCount(count) == count + 1
\* mutant: the history keeps the latest cycle's flags only
FoldFlags_latest(history, data) == data.anomalyFlags

FoldFlags(history, data) ==
    IF Len(data.anomalyFlags) > 0 THEN history \o data.anomalyFlags ELSE history
\* mutant: the latest score is stored in place of the maximum
FoldMax_latest(maxRisk, data) == data.riskScore

FoldMax(maxRisk, data) == Max(maxRisk, data.riskScore)

\* setState of the success path (lines 462-475)
StateOf(data) ==
    [faceCount |-> data.faceCount,
     faceDetected |-> data.faceDetected,
     faceLost |-> data.faceLost,
     cameraBlocked |-> data.cameraBlocked,
     highMotion |-> data.highMotion,
     environmentStable |-> ~data.cameraBlocked /\ ~data.highMotion,
     anomalyFlags |-> data.anomalyFlags,
     riskScore |-> data.riskScore,
     status |-> data.status,
     isAnalyzing |-> FALSE,
     error |-> "null",
     absent |-> data.absent]

\* setState of both failure paths (lines 440-445, 489-494)
StateOfFailure(prev, message) ==
    [prev EXCEPT !.isAnalyzing = FALSE, !.error = message, !.status = "warning"]

\* setState is a no-op once the component is unmounted
SetState(new) == IF mounted THEN new ELSE state
SetVoteMetadata(new) == IF mounted THEN new ELSE voteMetadata

\* mutant: reset() forgets the running maximum
reset_keepsMaxRisk ==
    /\ state' = SetState(initialState)
    /\ voteMetadata' = SetVoteMetadata(initialVoteMetadata)
    /\ previousStateRef' = NoPrior
    /\ analysisCountRef' = 0
    /\ flagHistoryRef' = <<>>
    /\ maxRiskScoreRef' = maxRiskScoreRef
    /\ epoch' = epoch + 1
    /\ applied' = <<>>

reset ==
    /\ state' = SetState(initialState)
    /\ voteMetadata' = SetVoteMetadata(initialVoteMetadata)
    /\ previousStateRef' = NoPrior
    /\ analysisCountRef' = 0
    /\ flagHistoryRef' = <<>>
    /\ maxRiskScoreRef' = 0
    /\ epoch' = epoch + 1
    /\ applied' = <<>>

----------------------------------------------------------------------------
\* WebcamMonitor component

\* the <video> element is rendered: not the permission-denied panel (lines
\* 161-180), and the preview is shown (lines 275-282; compact is false)
VideoMounted == mounted /\ hasPermission # "false" /\ previewVisible

\* the effect of lines 115-130 after a render in which isActive is true
ArmTimers ==
    /\ initTimeout' = TRUE
    /\ intervalRef' = TRUE

\* its cleanup, together with stopCamera's clearInterval
ClearTimers ==
    /\ initTimeout' = FALSE
    /\ intervalRef' = FALSE

\* the Start button (lines 260-264) or the Retry button (lines 169-177)
StartVisible == mounted /\ (hasPermission = "false" \/ ~isActive)

startCamera ==
    /\ StartVisible
    /\ acquired + pendingStarts < MaxStarts
    /\ pendingStarts' = pendingStarts + 1
    /\ UNCHANGED <<mounted, isActive, hasPermission, previewVisible, streamRef,
                   intervalRef, initTimeout, videoSrc, liveStreams, acquired>>
    /\ UNCHANGED <<hookVars, netVars, histVars, srvVars, voteVars>>

\* mutant: a rejected acquisition is attempted again by itself
startCameraDenied_retries ==
    /\ pendingStarts > 0
    /\ pendingStarts' = pendingStarts
    /\ hasPermission' = IF mounted THEN "false" ELSE hasPermission
    /\ videoSrc' = 0
    /\ UNCHANGED <<mounted, isActive, previewVisible, streamRef, intervalRef,
                   initTimeout, liveStreams, acquired>>
    /\ UNCHANGED <<hookVars, netVars, histVars, srvVars, voteVars>>

\* getUserMedia rejects: permission denied or no device (lines 57-60)
startCameraDenied ==
    /\ pendingStarts > 0
    /\ pendingStarts' = pendingStarts - 1
    /\ hasPermission' = IF mounted THEN "false" ELSE hasPermission
    /\ videoSrc' = 0
    /\ UNCHANGED <<mounted, isActive, previewVisible, streamRef, intervalRef,
                   initTimeout, liveStreams, acquired>>
    /\ UNCHANGED <<hookVars, netVars, histVars, srvVars, voteVars>>

\* getUserMedia resolves with a stream, video.play() rejects (lines 49-52, 57-60)
startCameraPlayFails ==
    /\ pendingStarts > 0
    /\ VideoMounted
    /\ pendingStarts' = pendingStarts - 1
    /\ acquired' = acquired + 1
    /\ liveStreams' = liveStreams \cup {acquired + 1}
    /\ hasPermission' = "false"
    /\ videoSrc' = 0
    /\ UNCHANGED <<mounted, isActive, previewVisible, streamRef, intervalRef,
                   initTimeout>>
    /\ UNCHANGED <<hookVars, netVars, histVars, srvVars, voteVars>>

\* getUserMedia resolves with a stream and the rest of the try block runs
\* (lines 41-56); the render that follows runs the timer effect when isActive
\* turned true
startCameraGranted ==
    /\ pendingStarts > 0
    /\ pendingStarts' = pendingStarts - 1
    /\ acquired' = acquired + 1
    /\ liveStreams' = liveStreams \cup {acquired + 1}
    /\ streamRef' = acquired + 1
    /\ videoSrc' = IF VideoMounted THEN acquired + 1 ELSE 0
    /\ isActive' = (mounted \/ isActive)
    /\ hasPermission' = IF mounted THEN "true" ELSE hasPermission
    /\ IF mounted /\ ~isActive THEN ArmTimers
       ELSE UNCHANGED <<initTimeout, intervalRef>>
    /\ UNCHANGED <<mounted, previewVisible>>
    /\ UNCHANGED <<hookVars, netVars, histVars, srvVars, voteVars>>

\* mutant: stopCamera leaves the interval armed
StopCameraBody_keepsInterval ==
    /\ liveStreams' = liveStreams \ {streamRef}
    /\ streamRef' = 0
    /\ initTimeout' = FALSE
    /\ intervalRef' = intervalRef
    /\ isActive' = FALSE
    /\ reset

\* body of stopCamera (lines 64-75) and the effect cleanup of lines 123-128
\* that the following render runs
StopCameraBody ==
    /\ liveStreams' = liveStreams \ {streamRef}
    /\ streamRef' = 0
    /\ ClearTimers
    /\ isActive' = FALSE
    /\ reset

\* the Stop button (lines 265-269)
stopCamera ==
    /\ mounted /\ isActive /\ hasPermission # "false"
    /\ StopCameraBody
    /\ UNCHANGED <<mounted, hasPermission, previewVisible, videoSrc, pendingStarts,
                   acquired>>
    /\ UNCHANGED <<netVars, srvVars, voteVars>>

\* unmount: the cleanup of lines 107-112 calls stopCamera()
unmount ==
    /\ mounted
    /\ StopCameraBody
    /\ mounted' = FALSE
    /\ videoSrc' = 0
    /\ UNCHANGED <<hasPermission, previewVisible, pendingStarts, acquired>>
    /\ UNCHANGED <<netVars, srvVars, voteVars>>

\* the preview toggle (line 252): the <video> element is removed or a fresh one
\* without srcObject is rendered
togglePreview ==
    /\ mounted /\ hasPermission # "false"
    /\ previewVisible' = ~previewVisible
    /\ videoSrc' = 0
    /\ UNCHANGED <<mounted, isActive, hasPermission, streamRef, intervalRef,
                   initTimeout, pendingStarts, liveStreams, acquired>>
    /\ UNCHANGED <<hookVars, netVars, histVars, srvVars, voteVars>>

\* mutant: the effect that re-arms the timers also resets the session
rearmTimers_resets ==
    /\ mounted /\ isActive
    /\ ArmTimers
    /\ reset
    /\ UNCHANGED <<mounted, isActive, hasPermission, previewVisible, streamRef,
                   videoSrc, pendingStarts, liveStreams, acquired>>
    /\ UNCHANGED <<netVars, srvVars, voteVars>>

\* a render with a new onRiskUpdate: captureAndAnalyze changes identity and the
\* effect of lines 115-130 is cleaned up and run again
rearmTimers ==
    /\ mounted /\ isActive
    /\ ArmTimers
    /\ UNCHANGED <<mounted, isActive, hasPermission, previewVisible, streamRef,
                   videoSrc, pendingStarts, liveStreams, acquired>>
    /\ UNCHANGED <<hookVars, netVars, histVars, srvVars, voteVars>>

----------------------------------------------------------------------------
\* Classification cycles

\* replies the external model gives during a session
SessionReplies ==
    { Reply("json", Analysis(1, FALSE, FALSE, TRUE, {})),
      Reply("json", Analysis(0, FALSE, FALSE, FALSE, {})),
      Reply("json", Analysis(2, TRUE, FALSE, TRUE, {})),
      Reply("nobraces", DefaultSafe) }

\* what makes analyzeFrame take a failure path: invoke returns an error (the
\* fetch failed, or the edge function answered non-2xx), or the call throws
FailureKinds == {"FunctionsFetchError", "FunctionsHttpError", "thrown"}

Request(id, prev, ep) == [id |-> id, prev |-> prev, epoch |-> ep]

\* history entry of the report `data` that request r brought back
Applied(r, data) ==
    [id |-> r.id, epoch |-> r.epoch, riskScore |-> data.riskScore,
     prior |-> FoldPrevious(data)]

\* the guards of captureAndAnalyze (lines 79, 85) pass; isActive is the value the
\* timer callback closed over, true whenever a timer is armed
CanCapture == VideoMounted /\ videoSrc # 0

\* captureAndAnalyze up to the await of line 98: analyzeFrame's first setState
\* and the invoke call (lines 428-436)
CaptureStart ==
    /\ CanCapture
    /\ issued < MaxRequests
    /\ state' = SetState([state EXCEPT !.isAnalyzing = TRUE, !.status = "analyzing"])
    /\ inflight' = inflight \cup {Request(issued + 1, previousStateRef, epoch)}
    /\ issued' = issued + 1
    /\ UNCHANGED <<voteMetadata, previousStateRef, analysisCountRef, flagHistoryRef,
                   maxRiskScoreRef, riskUpdates, lastRiskUpdate, lastResult,
                   lastOutcome, histVars>>

\* captureAndAnalyze returns early (lines 79, 85): no element, or the video has
\* not enough data yet
CaptureSkip ==
    UNCHANGED <<hookVars, netVars, histVars>>

\* the initial timeout of line 118 fires
initTimeoutFires ==
    /\ mounted /\ initTimeout
    /\ initTimeout' = FALSE
    /\ (CaptureStart \/ CaptureSkip)
    /\ UNCHANGED <<mounted, isActive, hasPermission, previewVisible, streamRef,
                   intervalRef, videoSrc, pendingStarts, liveStreams, acquired>>
    /\ UNCHANGED <<srvVars, voteVars>>

\* the interval of line 121 ticks
intervalFires ==
    /\ mounted /\ intervalRef
    /\ (CaptureStart \/ CaptureSkip)
    /\ UNCHANGED <<monitorVars, srvVars, voteVars>>

\* mutant: the parent is notified with the snapshot taken before the fold
applyReport_publishesFirst(r, data, outcome) ==
    /\ previousStateRef' = FoldPrevious(data)
    /\ analysisCountRef' = FoldCount(analysisCountRef)
    /\ flagHistoryRef' = FoldFlags(flagHistoryRef, data)
    /\ maxRiskScoreRef' = FoldMax(maxRiskScoreRef, data)
    /\ state' = SetState(StateOf(data))
    /\ voteMetadata' = SetVoteMetadata(
           [riskScore |-> data.riskScore,
            anomalyFlags |-> Len(data.anomalyFlags) > 0,
            flagHistory |-> flagHistoryRef',
            analysisCount |-> analysisCountRef',
            maxRiskScore |-> maxRiskScoreRef'])
    /\ lastResult' = data
    /\ lastOutcome' = outcome
    /\ riskUpdates' = riskUpdates + 1
    /\ lastRiskUpdate' = getVoteRiskData
    /\ inflight' = inflight \ {r}
    /\ applied' = Append(applied, Applied(r, data))
    /\ UNCHANGED <<issued, epoch, monitorVars, srvVars, voteVars>>

\* analyzeFrame's success path on `data` (lines 449-486), then the rest of
\* captureAndAnalyze, which notifies the parent (lines 100-103)
applyReport(r, data, outcome) ==
    /\ previousStateRef' = FoldPrevious(data)
    /\ analysisCountRef' = FoldCount(analysisCountRef)
    /\ flagHistoryRef' = FoldFlags(flagHistoryRef, data)
    /\ maxRiskScoreRef' = FoldMax(maxRiskScoreRef, data)
    /\ state' = SetState(StateOf(data))
    /\ voteMetadata' = SetVoteMetadata(
           [riskScore |-> data.riskScore,
            anomalyFlags |-> Len(data.anomalyFlags) > 0,
            flagHistory |-> flagHistoryRef',
            analysisCount |-> analysisCountRef',
            maxRiskScore |-> maxRiskScoreRef'])
    /\ lastResult' = data
    /\ lastOutcome' = outcome
    /\ riskUpdates' = riskUpdates + 1
    /\ lastRiskUpdate' = getVoteRiskData'
    /\ inflight' = inflight \ {r}
    /\ applied' = Append(applied, Applied(r, data))
    /\ UNCHANGED <<issued, epoch, monitorVars, srvVars, voteVars>>

\* the invoke of request r resolves with the edge function's answer to `reply`
analyzeResolves(r, reply) == applyReport(r, Serve(reply, r.prev), "ok")

\* mutant: a failed call is scored on the default observation
analyzeFails_scoresDefault(r, kind) ==
    applyReport(r, Serve(Reply("nobraces", DefaultSafe), r.prev), kind)

\* mutant: a failed call is issued again at once
analyzeFails_retries(r, kind) ==
    /\ state' = SetState(StateOfFailure(state, kind))
    /\ lastResult' = NoResult
    /\ lastOutcome' = kind
    /\ IF issued < MaxRequests
       THEN /\ inflight' = (inflight \ {r})
                               \cup {Request(issued + 1, previousStateRef, epoch)}
            /\ issued' = issued + 1
       ELSE /\ inflight' = inflight \ {r}
            /\ issued' = issued
    /\ UNCHANGED <<voteMetadata, previousStateRef, analysisCountRef, flagHistoryRef,
                   maxRiskScoreRef, riskUpdates, lastRiskUpdate, histVars>>
    /\ UNCHANGED <<monitorVars, srvVars, voteVars>>

\* the invoke of request r fails: analyzeFrame returns null (lines 438-447,
\* 487-496) and captureAndAnalyze notifies nobody (line 101)
analyzeFails(r, kind) ==
    /\ state' = SetState(StateOfFailure(state, kind))
    /\ lastResult' = NoResult
    /\ lastOutcome' = kind
    /\ inflight' = inflight \ {r}
    /\ UNCHANGED <<voteMetadata, previousStateRef, analysisCountRef, flagHistoryRef,
                   maxRiskScoreRef, issued, riskUpdates, lastRiskUpdate, histVars>>
    /\ UNCHANGED <<monitorVars, srvVars, voteVars>>

----------------------------------------------------------------------------
\* Specification of the monitoring session

InitMonitor ==
    /\ mounted = TRUE
    /\ isActive = FALSE
    /\ hasPermission = "null"
    /\ previewVisible = TRUE
    /\ streamRef = 0
    /\ intervalRef = FALSE
    /\ initTimeout = FALSE
    /\ videoSrc = 0
    /\ pendingStarts = 1
    /\ liveStreams = {}
    /\ acquired = 0
    /\ state = initialState
    /\ voteMetadata = initialVoteMetadata
    /\ previousStateRef = NoPrior
    /\ analysisCountRef = 0
    /\ flagHistoryRef = <<>>
    /\ maxRiskScoreRef = 0
    /\ inflight = {}
    /\ issued = 0
    /\ riskUpdates = 0
    /\ lastRiskUpdate = NoRiskUpdate
    /\ lastResult = NoResult
    /\ lastOutcome = "none"
    /\ epoch = 0
    /\ applied = <<>>

InitServer ==
    /\ srvUpstream = "ok"
    /\ srvReply = Reply("nobraces", DefaultSafe)
    /\ srvPrev = NoPrior
    /\ srvStatus = 0
    /\ srvResult = NoResult

\* the Vote page after mount (lines 18-28)
InitVote ==
    /\ page = "Vote"
    /\ connected = FALSE
    /\ selected = FALSE
    /\ loading = FALSE
    /\ election = "none"
    /\ govtIdAuthenticated = FALSE
    /\ emailCollected = FALSE
    /\ voterName = ""
    /\ hasVoted = FALSE
    /\ voting = FALSE
    /\ pendingTx = 0
    /\ submitted = 0
    /\ votesRecorded = 0

\* ElectionVoting after mount (lines 22-41): fetchElectionData is under way
InitElectionVoting ==
    /\ page = "ElectionVoting"
    /\ connected = FALSE
    /\ selected = TRUE
    /\ loading = TRUE
    /\ election = "none"
    /\ govtIdAuthenticated = FALSE
    /\ emailCollected = FALSE
    /\ voterName = ""
    /\ hasVoted = FALSE
    /\ voting = FALSE
    /\ pendingTx = 0
    /\ submitted = 0
    /\ votesRecorded = 0

Init == InitMonitor /\ InitServer /\ InitVote

Next ==
    \/ startCamera
    \/ startCameraDenied
    \/ startCameraPlayFails
    \/ startCameraGranted
    \/ stopCamera
    \/ unmount
    \/ togglePreview
    \/ rearmTimers
    \/ initTimeoutFires
    \/ intervalFires
    \/ \E r \in inflight, reply \in SessionReplies : analyzeResolves(r, reply)
    \/ \E r \in inflight, kind \in FailureKinds : analyzeFails(r, kind)

Spec == Init /\ [][Next]_vars

----------------------------------------------------------------------------
\* Specification of the edge function taken alone: one request, any reply

\* every request the handler can be given past its frameData and API key checks
InitRequests ==
    /\ srvUpstream \in {"ok", "error"}
    /\ srvReply \in AllReplies
    /\ srvPrev \in AllPriors
    /\ srvStatus = 0
    /\ srvResult = NoResult

\* the model service answers non-2xx: the handler answers 500 (lines 90-97)
serveUpstreamError ==
    /\ srvStatus = 0
    /\ srvUpstream = "error"
    /\ srvStatus' = 500
    /\ UNCHANGED <<srvUpstream, srvReply, srvPrev, srvResult>>
    /\ UNCHANGED <<monitorVars, hookVars, netVars, histVars, voteVars>>

\* the handler parses the reply, scores it and answers 200 (lines 99-194)
serve ==
    /\ srvStatus = 0
    /\ srvUpstream = "ok"
    /\ srvStatus' = 200
    /\ srvResult' = Serve(srvReply, srvPrev)
    /\ UNCHANGED <<srvUpstream, srvReply, srvPrev>>
    /\ UNCHANGED <<monitorVars, hookVars, netVars, histVars, voteVars>>

NextServer == serve \/ serveUpstreamError

InitEdgeFunction == InitMonitor /\ InitVote /\ InitRequests

SpecServer == InitEdgeFunction /\ [][NextServer]_vars

----------------------------------------------------------------------------
\* Vote submission: the Vote page and the ElectionVoting component

FetchResults == {"active", "ended", "failed"}
VoterNames == {"", "name"}

\* mutant: the candidate cards are hidden while the session is flagged
handleVoteEnabled_gatedByRisk ==
    /\ page = "Vote"
    /\ connected
    /\ selected
    /\ ~loading
    /\ election = "active"
    /\ ~getVoteRiskData.isFlagged

\* the candidate cards of the Vote page are rendered (lines 319, 335, 425, 432,
\* 480-490); handleVote itself tests nothing (lines 231-239)
handleVoteEnabled ==
    /\ page = "Vote"
    /\ connected
    /\ selected
    /\ ~loading
    /\ election = "active"

\* mutant: the vote buttons are disabled once a vote is recorded
voteEnabled_onlyOnce ==
    /\ page = "ElectionVoting"
    /\ ~loading
    /\ election = "active"
    /\ connected
    /\ govtIdAuthenticated
    /\ emailCollected
    /\ ~voting
    /\ voterName # ""
    /\ ~hasVoted

\* the vote buttons of ElectionVoting are rendered and not disabled (lines 353,
\* 498, 517, 537, 593, 614-617) and vote() passes its early return (lines 263-270)
voteEnabled ==
    /\ page = "ElectionVoting"
    /\ ~loading
    /\ election = "active"
    /\ connected
    /\ govtIdAuthenticated
    /\ emailCollected
    /\ ~voting
    /\ voterName # ""

\* checkWalletConnection finds an account (Vote.jsx 157-171, ElectionVoting 59-71)
walletConnects ==
    /\ ~connected
    /\ connected' = TRUE
    /\ UNCHANGED <<page, selected, loading, election, govtIdAuthenticated,
                   emailCollected, voterName, hasVoted, voting, pendingTx, submitted,
                   votesRecorded>>
    /\ UNCHANGED <<monitorVars, hookVars, netVars, histVars, srvVars>>

\* Vote.jsx handleElectionSelect up to the await inside fetchElectionDetails
handleElectionSelect ==
    /\ page = "Vote" /\ connected /\ ~selected
    /\ selected' = TRUE
    /\ loading' = TRUE
    /\ UNCHANGED <<page, connected, election, govtIdAuthenticated, emailCollected,
                   voterName, hasVoted, voting, pendingTx, submitted, votesRecorded>>
    /\ UNCHANGED <<monitorVars, hookVars, netVars, histVars, srvVars>>

\* Vote.jsx fetchElectionDetails after its await (lines 98-154); with an address
\* checkVotingStatus clears hasVoted (lines 141-143, 205)
fetchElectionDetailsResolves(result) ==
    /\ page = "Vote" /\ loading
    /\ loading' = FALSE
    /\ election' = IF result = "failed" THEN election ELSE result
    /\ hasVoted' = IF result = "failed" THEN hasVoted ELSE FALSE
    /\ UNCHANGED <<page, connected, selected, govtIdAuthenticated, emailCollected,
                   voterName, voting, pendingTx, submitted, votesRecorded>>
    /\ UNCHANGED <<monitorVars, hookVars, netVars, histVars, srvVars>>

\* Vote.jsx handleBackToList (lines 287-293)
handleBackToList ==
    /\ page = "Vote" /\ connected /\ selected
    /\ selected' = FALSE
    /\ election' = "none"
    /\ hasVoted' = FALSE
    /\ UNCHANGED <<page, connected, loading, govtIdAuthenticated, emailCollected,
                   voterName, voting, pendingTx, submitted, votesRecorded>>
    /\ UNCHANGED <<monitorVars, hookVars, netVars, histVars, srvVars>>

\* ElectionVoting fetchFreshElectionData finishes (lines 104-193)
fetchElectionDataResolves(result) ==
    /\ page = "ElectionVoting" /\ loading
    /\ loading' = FALSE
    /\ election' = IF result = "failed" THEN election ELSE result
    /\ UNCHANGED <<page, connected, selected, govtIdAuthenticated, emailCollected,
                   voterName, hasVoted, voting, pendingTx, submitted, votesRecorded>>
    /\ UNCHANGED <<monitorVars, hookVars, netVars, histVars, srvVars>>

\* ElectionVoting: the deadline passes, electionEnded turns true (line 415)
deadlinePasses ==
    /\ page = "ElectionVoting" /\ election = "active"
    /\ election' = "ended"
    /\ UNCHANGED <<page, connected, selected, loading, govtIdAuthenticated,
                   emailCollected, voterName, hasVoted, voting, pendingTx, submitted,
                   votesRecorded>>
    /\ UNCHANGED <<monitorVars, hookVars, netVars, histVars, srvVars>>

\* ElectionVoting handleGovtIdLogin with an id entered (lines 318-335, 537)
handleGovtIdLogin ==
    /\ page = "ElectionVoting" /\ ~loading /\ election = "active"
    /\ connected /\ ~govtIdAuthenticated
    /\ govtIdAuthenticated' = TRUE
    /\ UNCHANGED <<page, connected, selected, loading, election, emailCollected,
                   voterName, hasVoted, voting, pendingTx, submitted, votesRecorded>>
    /\ UNCHANGED <<monitorVars, hookVars, netVars, histVars, srvVars>>

\* ElectionVoting handleEmailCollected (lines 312-316, 593-598)
handleEmailCollected(name) ==
    /\ page = "ElectionVoting" /\ ~loading /\ election = "active"
    /\ connected /\ govtIdAuthenticated /\ ~emailCollected
    /\ emailCollected' = TRUE
    /\ voterName' = name
    /\ UNCHANGED <<page, connected, selected, loading, election, govtIdAuthenticated,
                   hasVoted, voting, pendingTx, submitted, votesRecorded>>
    /\ UNCHANGED <<monitorVars, hookVars, netVars, histVars, srvVars>>

\* a candidate is clicked: handleVote (Vote.jsx 231-239) or vote (ElectionVoting
\* 262-278) up to the awaited contract.vote
SubmitVote ==
    /\ submitted < MaxVotes
    /\ voting' = TRUE
    /\ pendingTx' = pendingTx + 1
    /\ submitted' = submitted + 1
    /\ UNCHANGED <<page, connected, selected, loading, election, govtIdAuthenticated,
                   emailCollected, voterName, hasVoted, votesRecorded>>
    /\ UNCHANGED <<monitorVars, hookVars, netVars, histVars, srvVars>>

handleVote == handleVoteEnabled /\ SubmitVote

vote == voteEnabled /\ SubmitVote

\* tx.wait() resolves: setHasVoted(true), the data is fetched again and the
\* finally block runs (Vote.jsx 246-267, ElectionVoting 286-309)
voteConfirmed ==
    /\ pendingTx > 0
    /\ pendingTx' = pendingTx - 1
    /\ votesRecorded' = votesRecorded + 1
    /\ hasVoted' = TRUE
    /\ loading' = TRUE
    /\ voting' = FALSE
    /\ UNCHANGED <<page, connected, selected, election, govtIdAuthenticated,
                   emailCollected, voterName, submitted>>
    /\ UNCHANGED <<monitorVars, hookVars, netVars, histVars, srvVars>>

\* contract.vote or tx.wait() rejects (Vote.jsx 257-267, ElectionVoting 298-309)
voteFails ==
    /\ pendingTx > 0
    /\ pendingTx' = pendingTx - 1
    /\ voting' = FALSE
    /\ UNCHANGED <<page, connected, selected, loading, election, govtIdAuthenticated,
                   emailCollected, voterName, hasVoted, submitted, votesRecorded>>
    /\ UNCHANGED <<monitorVars, hookVars, netVars, histVars, srvVars>>

\* The voting component next to one uninterrupted monitoring session
InitVoting == InitMonitor /\ InitServer /\ (InitVote \/ InitElectionVoting)

NextVoting ==
    \/ walletConnects
    \/ handleElectionSelect
    \/ \E result \in FetchResults : fetchElectionDetailsResolves(result)
    \/ handleBackToList
    \/ \E result \in FetchResults : fetchElectionDataResolves(result)
    \/ deadlinePasses
    \/ handleGovtIdLogin
    \/ \E name \in VoterNames : handleEmailCollected(name)
    \/ handleVote
    \/ vote
    \/ voteConfirmed
    \/ voteFails
    \/ startCameraGranted
    \/ initTimeoutFires
    \/ intervalFires
    \/ \E r \in inflight, reply \in SessionReplies : analyzeResolves(r, reply)

SpecVoting == InitVoting /\ [][NextVoting]_vars

----------------------------------------------------------------------------
\* Properties

aggregator == <<maxRiskScoreRef, flagHistoryRef, analysisCountRef, previousStateRef>>

\* a step in which a classification call ends
Resolved(r) == r \in inflight /\ r \notin inflight'

\* C1: at most one classification call is in flight at any time; a tick that
\* fires while a call is pending starts no second one.
C1_AtMostOneInFlight == Cardinality(inflight) <= 1

\* C2: a classification response that resolves after stop() (a call of an
\* earlier epoch) changes none of maxRiskScore, flagHistory, analysisCount and
\* PriorContext and publishes no risk update.
C2_StaleResponseDiscarded ==
    [][\A r \in inflight :
          (Resolved(r) /\ r.epoch < epoch) =>
              (UNCHANGED aggregator /\ riskUpdates' = riskUpdates)]_vars

\* C3: every step that is not reset() leaves maxRiskScore' >= maxRiskScore.
C3_MaxRiskNonDecreasing ==
    [][epoch' = epoch => maxRiskScoreRef' >= maxRiskScoreRef]_vars

\* C3 witness: a cycle with a lower score completed and the maximum stayed.
C3_Witness ==
    /\ analysisCountRef >= 2
    /\ lastOutcome = "ok"
    /\ lastResult.riskScore < maxRiskScoreRef

\* C4: until reset(), a snapshot that reports isFlagged keeps reporting it, and
\* every flag of the flag history stays in the snapshot's flagDetails.
C4_EvidenceNotErased ==
    [][epoch' = epoch =>
          \* the snapshot reads these three refs only
          \/ UNCHANGED <<maxRiskScoreRef, flagHistoryRef, analysisCountRef>>
          \/ LET before == getVoteRiskData
                 after == getVoteRiskData'
                 kept == SeqToSet(after.flagDetails)
             IN /\ before.isFlagged => after.isFlagged
                /\ SeqToSet(flagHistoryRef) \subseteq kept
                /\ SeqToSet(before.flagDetails) \subseteq kept]_vars

\* C4 witness: a clean frame was folded into a flagged session.
C4_Witness ==
    /\ getVoteRiskData.isFlagged
    /\ getVoteRiskData.flagDetails # <<>>
    /\ lastOutcome = "ok"
    /\ lastResult.riskScore = 0
    /\ lastResult.anomalyFlags = <<>>

\* C5: a cycle whose classification call fails in transport changes none of
\* maxRiskScore, flagHistory, analysisCount and PriorContext, neither when it
\* starts nor when it fails; analyzeFrame returns null and no onRiskUpdate is
\* made.
C5_TransportFailureLeavesSession ==
    [][/\ (\E r \in inflight' : r \notin inflight) => UNCHANGED aggregator
       /\ (\E r \in inflight : Resolved(r) /\ lastOutcome' \in FailureKinds) =>
              /\ UNCHANGED aggregator
              /\ voteMetadata' = voteMetadata
              /\ lastResult' = NoResult
              /\ riskUpdates' = riskUpdates
              /\ lastRiskUpdate' = lastRiskUpdate]_vars

\* C5 witness: the second cycle of a session failed after the first one had
\* been folded in.
C5_Witness ==
    /\ lastOutcome \in FailureKinds
    /\ lastResult = NoResult
    /\ issued = 2 /\ inflight = {}
    /\ analysisCountRef = 1
    /\ maxRiskScoreRef > 0
    /\ riskUpdates = 1

\* C6: right after reset() flagHistory is empty, analysisCount is 0,
\* maxRiskScore is 0, PriorContext is none and the snapshot is the initial one.
C6_ResetRestoresInitial ==
    [][epoch' # epoch =>
          /\ flagHistoryRef' = <<>>
          /\ analysisCountRef' = 0
          /\ maxRiskScoreRef' = 0
          /\ previousStateRef' = NoPrior
          /\ getVoteRiskData' = [riskScore |-> 0, anomalyFlags |-> FALSE,
                                 flagDetails |-> <<>>, analysisCount |-> 0,
                                 isFlagged |-> FALSE]]_vars

\* C6 witness: a session that had published a flagged snapshot was reset.
C6_Witness ==
    /\ epoch > 0
    /\ lastRiskUpdate.isFlagged
    /\ lastRiskUpdate.analysisCount > 0
    /\ analysisCountRef = 0
    /\ flagHistoryRef = <<>>

\* C7: a step that changes the anomaly session only leaves the vote action
\* enabled exactly when it was, and a submission is sent and a confirmation
\* recorded whatever the risk state.
C7_VoteNotGatedByRisk ==
    [][/\ UNCHANGED voteVars =>
              /\ handleVoteEnabled' = handleVoteEnabled
              /\ voteEnabled' = voteEnabled
       /\ submitted' # submitted => (pendingTx' = pendingTx + 1 /\ UNCHANGED hookVars)
       /\ votesRecorded' # votesRecorded => (hasVoted' /\ UNCHANGED hookVars)]_vars

\* C7 witness: the session is flagged and the vote action is enabled.
C7_Witness ==
    /\ getVoteRiskData.isFlagged
    /\ handleVoteEnabled
    /\ submitted = 0

\* C8: once a vote is recorded the vote action is enabled under the conditions
\* of the first vote, in the Vote page and in ElectionVoting; hasVoted is no
\* precondition.
C8_RecastNeverBlocked ==
    (hasVoted \/ votesRecorded > 0) =>
        /\ handleVoteEnabled <=>
              (page = "Vote" /\ connected /\ selected /\ ~loading
               /\ election = "active")
        /\ voteEnabled <=>
              (page = "ElectionVoting" /\ ~loading /\ election = "active"
               /\ connected /\ govtIdAuthenticated /\ emailCollected
               /\ voterName # "" /\ ~voting)

\* C8 witness: a second vote was recorded and the vote action is enabled again.
C8_Witness ==
    /\ hasVoted
    /\ votesRecorded >= 2
    /\ voteEnabled

\* C9: the riskScore of every answered AnalysisResult is in 0..100.
C9_RiskScoreInRange ==
    srvStatus = 200 => (0 <= srvResult.riskScore /\ srvResult.riskScore <= 100)

\* C9 witness: the matched weights add up to more than 100 and the answer is 100.
C9_Witness ==
    /\ srvStatus = 200
    /\ RawScore(ParseReply(srvReply), srvPrev) > 100
    /\ srvResult.riskScore = 100

\* C10: status = flagged iff riskScore > 50, warning iff 25 < riskScore <= 50,
\* normal iff riskScore <= 25; 50 gives warning and 25 gives normal.
C10_StatusTiers ==
    /\ srvStatus = 200 =>
          /\ srvResult.status = "flagged" <=> srvResult.riskScore > 50
          /\ srvResult.status = "warning" <=>
                 (25 < srvResult.riskScore /\ srvResult.riskScore <= 50)
          /\ srvResult.status = "normal" <=> srvResult.riskScore <= 25
    /\ \A score \in 0..100 :
          /\ StatusOf(score) = "flagged" <=> score > 50
          /\ StatusOf(score) = "warning" <=> (25 < score /\ score <= 50)
          /\ StatusOf(score) = "normal" <=> score <= 25

\* C10 witness: an answer with riskScore 50 and status warning.
C10_Witness ==
    /\ srvStatus = 200
    /\ srvResult.riskScore = 50
    /\ srvResult.status = "warning"

\* C11: for every fully populated observation and every PriorContext the
\* answered riskScore is min(100, sum of the weights of the matching rules:
\* faceCount > 1 +40, faceCount = 0 +20, prior face and faceCount = 0 +30,
\* cameraBlocked +30, highMotion +20, not environmentStable +10), anomalyFlags
\* holds one flag per matching rule in that order, and faceDetected is
\* faceCount >= 1.
C11_ScoringTable ==
    (srvStatus = 200 /\ srvReply.kind = "json" /\ srvReply.payload.missing = {}) =>
        LET obs == srvReply.payload
            lost == srvPrev.present /\ srvPrev.faceDetected /\ obs.faceCount = 0
            sum ==   (IF obs.faceCount > 1 THEN 40 ELSE 0)
                   + (IF obs.faceCount = 0 THEN 20 ELSE 0)
                   + (IF lost THEN 30 ELSE 0)
                   + (IF obs.cameraBlocked THEN 30 ELSE 0)
                   + (IF obs.highMotion THEN 20 ELSE 0)
                   + (IF ~obs.environmentStable THEN 10 ELSE 0)
            flags ==
                  (IF obs.faceCount > 1
                       THEN <<"Multiple faces detected: " \o ToString(obs.faceCount)>>
                       ELSE <<>>)
               \o (IF obs.faceCount = 0 THEN <<"No face detected">> ELSE <<>>)
               \o (IF lost THEN <<"Face suddenly disappeared">> ELSE <<>>)
               \o (IF obs.cameraBlocked THEN <<"Camera appears blocked">> ELSE <<>>)
               \o (IF obs.highMotion THEN <<"Unusual motion detected">> ELSE <<>>)
               \o (IF ~obs.environmentStable
                       THEN <<"Environment instability detected">> ELSE <<>>)
        IN /\ srvResult.riskScore = (IF sum < 100 THEN sum ELSE 100)
           /\ srvResult.anomalyFlags = flags
           /\ srvResult.faceDetected = (obs.faceCount >= 1)

\* C11 witness: an answer in which four rules matched below the cap.
C11_Witness ==
    /\ srvStatus = 200
    /\ srvReply.kind = "json" /\ srvReply.payload.missing = {}
    /\ Len(srvResult.anomalyFlags) = 4
    /\ srvResult.riskScore = 80

\* C12: with PriorContext {faceDetected: true, faceCount: 1} and the observation
\* {faceCount: 0, cameraBlocked: false, highMotion: false, environmentStable:
\* true} the answer has riskScore 50, status warning, faceLost true and the flags
\* "No face detected", "Face suddenly disappeared" in that order.
C12_FaceDisappearance ==
    (/\ srvStatus = 200
     /\ srvPrev = [present |-> TRUE, faceDetected |-> TRUE, faceCount |-> 1]
     /\ srvReply.kind = "json"
     /\ srvReply.payload.missing = {}
     /\ srvReply.payload.faceCount = 0
     /\ ~srvReply.payload.cameraBlocked
     /\ ~srvReply.payload.highMotion
     /\ srvReply.payload.environmentStable) =>
        /\ srvResult.riskScore = 50
        /\ srvResult.status = "warning"
        /\ srvResult.faceLost = TRUE
        /\ "faceLost" \notin srvResult.absent
        /\ srvResult.anomalyFlags = <<"No face detected", "Face suddenly disappeared">>

\* C12 witness: the handler answered that request.
C12_Witness ==
    /\ srvStatus = 200
    /\ srvPrev = Prior(TRUE, 1)
    /\ srvReply = Reply("json", Analysis(0, FALSE, FALSE, TRUE, {}))
    /\ srvResult.faceLost

\* C13: in every answered report faceLost is a boolean, present in the report,
\* equal to (PriorContext present and its faceDetected true and faceCount = 0).
C13_FaceLostBoolean ==
    srvStatus = 200 =>
        /\ "faceLost" \notin srvResult.absent
        /\ srvResult.faceLost =
               (/\ srvPrev.present
                /\ srvPrev.faceDetected
                /\ "faceCount" \notin srvResult.absent
                /\ srvResult.faceCount = 0)

\* C14: a reply without a parseable payload (no braces, empty, or braces around
\* invalid JSON) is answered with status 200, riskScore 0, status normal and no
\* flags, whatever the PriorContext.
C14_UnparseableScoredSafe ==
    (srvStatus # 0 /\ srvUpstream = "ok" /\ srvReply.kind \in {"nobraces", "badjson"}) =>
        /\ srvStatus = 200
        /\ srvResult.ok
        /\ srvResult.riskScore = 0
        /\ srvResult.status = "normal"
        /\ srvResult.anomalyFlags = <<>>

\* C14 witness: invalid JSON was answered for a request whose PriorContext had
\* a face.
C14_Witness ==
    /\ srvStatus = 200
    /\ srvReply.kind = "badjson"
    /\ srvPrev.present /\ srvPrev.faceDetected
    /\ srvResult.riskScore = 0

\* C15: a reply whose payload parses but lacks a required field is scored on
\* the default-safe observation: riskScore 0, status normal, no flags.
C15_PartialPayloadReplaced ==
    (srvStatus = 200 /\ srvReply.kind = "json" /\ srvReply.payload.missing # {}) =>
        /\ srvResult.riskScore = 0
        /\ srvResult.status = "normal"
        /\ srvResult.anomalyFlags = <<>>
        /\ srvResult.absent \subseteq {"faceLost"}

\* the reports of cycles of the current session folded in so far
CurrentApplied == SelectSeq(applied, LAMBDA e : e.epoch = epoch)

NoDuplicates(s) == \A i, j \in 1..Len(s) : s[i] = s[j] => i = j

\* C16: the reports of one session are folded into the session state in the
\* order in which their cycles were started.
C16_AppliedInInitiationOrder ==
    \A i, j \in 1..Len(applied) :
        (i < j /\ applied[i].epoch = applied[j].epoch) =>
            applied[i].id < applied[j].id

\* C17: the PriorContext sent with a request is {faceDetected, faceCount} of the
\* latest completed cycle of the current session, none if the session has
\* completed no cycle; a completed cycle overwrites it, a failed one keeps it.
C17_PriorContextOfSession ==
    [][/\ \A r \in inflight' \ inflight :
              r.prev = IF CurrentApplied = <<>> THEN NoPrior
                       ELSE CurrentApplied[Len(CurrentApplied)].prior
       /\ \A r \in inflight :
              /\ (Resolved(r) /\ lastOutcome' = "ok") =>
                     previousStateRef' = [present |-> TRUE,
                                          faceDetected |-> lastResult'.faceDetected,
                                          faceCount |-> lastResult'.faceCount]
              /\ (Resolved(r) /\ lastOutcome' \in FailureKinds) =>
                     previousStateRef' = previousStateRef]_vars

\* C18: after the n reports folded in since the last reset(), analysisCount is
\* n, maxRiskScore is the largest of their n scores (0 when n = 0) and isFlagged
\* is maxRiskScore > 50.
C18_FoldedExactlyOnce ==
    LET scores == { applied[i].riskScore : i \in 1..Len(applied) }
    IN /\ analysisCountRef = Len(applied)
       /\ getVoteRiskData.analysisCount = Len(applied)
       /\ maxRiskScoreRef = (IF scores = {} THEN 0
                             ELSE CHOOSE m \in scores : \A x \in scores : x <= m)
       /\ getVoteRiskData.isFlagged = (maxRiskScoreRef > 50)

\* C18 witness: two reports were folded in, the larger score first.
C18_Witness ==
    /\ Len(applied) = 2
    /\ applied[1].riskScore > 50
    /\ applied[2].riskScore < applied[1].riskScore
    /\ applied[2].riskScore > 0

\* C19: neither the stored flag history nor the flagHistory published in
\* voteMetadata holds the same flag twice.
C19_FlagHistoryIsSet ==
    /\ NoDuplicates(flagHistoryRef)
    /\ NoDuplicates(voteMetadata.flagHistory)

\* C20: the snapshot of getVoteRiskData has riskScore = maxRiskScore,
\* flagDetails = the distinct flags of the history without duplicates,
\* anomalyFlags true iff flagDetails is non-empty, the analysisCount, and
\* isFlagged true iff riskScore > 50; the call that publishes it leaves the
\* stored state as analyzeFrame folded it.
C20_SnapshotReadOnly ==
    /\ [](/\ getVoteRiskData.riskScore = maxRiskScoreRef
          /\ SeqToSet(getVoteRiskData.flagDetails) = SeqToSet(flagHistoryRef)
          /\ NoDuplicates(getVoteRiskData.flagDetails)
          /\ getVoteRiskData.anomalyFlags = (getVoteRiskData.flagDetails # <<>>)
          /\ getVoteRiskData.analysisCount = analysisCountRef
          /\ getVoteRiskData.isFlagged = (getVoteRiskData.riskScore > 50))
    /\ [][riskUpdates' # riskUpdates =>
              /\ lastRiskUpdate' = getVoteRiskData'
              /\ analysisCountRef' = analysisCountRef + 1
              /\ flagHistoryRef' = flagHistoryRef \o lastResult'.anomalyFlags
              /\ maxRiskScoreRef' \in {maxRiskScoreRef, lastResult'.riskScore}]_vars

\* C20 witness: a snapshot was published while the stored history held a flag
\* twice.
C20_Witness ==
    /\ Len(flagHistoryRef) > Len(getVoteRiskData.flagDetails)
    /\ lastRiskUpdate = getVoteRiskData
    /\ riskUpdates = 2

\* C21: reset() runs only as part of stop(): a step that resets ends the camera
\* session, and a step that leaves the session active returns none of
\* maxRiskScore, flagHistory, analysisCount and PriorContext to its initial
\* value.
C21_NoResetMidSession ==
    [][/\ epoch' # epoch => (~isActive' /\ streamRef' = 0)
       /\ (isActive /\ isActive') =>
              /\ epoch' = epoch
              /\ maxRiskScoreRef' >= maxRiskScoreRef
              /\ analysisCountRef' >= analysisCountRef
              /\ Len(flagHistoryRef') >= Len(flagHistoryRef)
              /\ previousStateRef.present => previousStateRef'.present]_vars

\* C21 witness: an active session that was never reset holds a report, its
\* preview was toggled off and its latest cycle failed.
C21_Witness ==
    /\ isActive /\ epoch = 0
    /\ ~previewVisible
    /\ analysisCountRef >= 1
    /\ maxRiskScoreRef > 0
    /\ lastOutcome \in FailureKinds

\* C22: a step that runs stop() stops the held stream and retains none, cancels
\* the interval and the initial timeout and starts no request; a request is
\* started only in an active session, and a session becomes active only when a
\* start acquires a stream.
C22_StopReleases ==
    [][/\ epoch' # epoch =>
              /\ streamRef' = 0
              /\ streamRef \notin liveStreams'
              /\ ~intervalRef' /\ ~initTimeout'
              /\ ~isActive'
              /\ issued' = issued
       /\ issued' # issued => (isActive /\ isActive')
       /\ (~isActive /\ isActive') => acquired' = acquired + 1]_vars

\* C22 witness: stop() ran while a cycle was in flight.
C22_Witness ==
    /\ mounted /\ epoch > 0
    /\ inflight # {}
    /\ ~isActive /\ streamRef = 0
    /\ liveStreams = {}
    /\ acquired > 0

\* C23: a start() that acts while a session is active acquires no second stream
\* and leaves the held stream, the active flag, the timers and the session
\* state unchanged.
C23_StartIdempotent ==
    [][(pendingStarts' # pendingStarts /\ isActive /\ streamRef # 0) =>
          /\ acquired' = acquired
          /\ liveStreams' = liveStreams
          /\ streamRef' = streamRef
          /\ isActive'
          /\ intervalRef' = intervalRef /\ initTimeout' = initTimeout
          /\ UNCHANGED hookVars]_vars

\* C24: when the acquisition is rejected and no session is active, isActive
\* stays false, hasPermission becomes false, no timer is armed, no request is
\* issued and no other acquisition is attempted.
C24_DeviceUnavailable ==
    [][(hasPermission # "false" /\ hasPermission' = "false" /\ acquired' = acquired
        /\ ~isActive) =>
          /\ ~isActive'
          /\ streamRef' = streamRef
          /\ ~intervalRef' /\ ~initTimeout'
          /\ issued' = issued /\ inflight' = inflight
          /\ pendingStarts' = pendingStarts - 1
          /\ UNCHANGED hookVars]_vars

\* C24 witness: the only acquisition was rejected and nothing else happened.
C24_Witness ==
    /\ mounted
    /\ hasPermission = "false"
    /\ ~isActive
    /\ acquired = 0 /\ pendingStarts = 0
    /\ issued = 0

\* C25: a cycle that completes makes exactly one onRiskUpdate call whose
\* snapshot includes its report (score folded into the maximum, flags in
\* flagDetails, analysisCount counting it); a failed or skipped cycle and the
\* start of a cycle publish nothing.
C25_PublishOncePerCycle ==
    [][/\ \A r \in inflight :
              Resolved(r) =>
                  IF lastOutcome' = "ok"
                  THEN /\ riskUpdates' = riskUpdates + 1
                       /\ lastRiskUpdate'.riskScore >= lastResult'.riskScore
                       /\ SeqToSet(lastResult'.anomalyFlags)
                              \subseteq SeqToSet(lastRiskUpdate'.flagDetails)
                       /\ lastRiskUpdate'.analysisCount = analysisCountRef + 1
                       /\ lastRiskUpdate'.anomalyFlags =
                              (flagHistoryRef # <<>> \/ lastResult'.anomalyFlags # <<>>)
                  ELSE /\ riskUpdates' = riskUpdates
                       /\ lastRiskUpdate' = lastRiskUpdate
       /\ (\A r \in inflight : r \in inflight') =>
              (riskUpdates' = riskUpdates /\ lastRiskUpdate' = lastRiskUpdate)]_vars

\* C25 witness: the second completed cycle was published with a snapshot
\* whose maximum comes from the first.
C25_Witness ==
    /\ riskUpdates = 2
    /\ lastOutcome = "ok"
    /\ lastResult.riskScore > 0
    /\ lastRiskUpdate.riskScore > lastResult.riskScore
    /\ lastRiskUpdate.analysisCount = 2

\* C26: a failed classification call is not issued again, leaves the session
\* active with its timers as they were, and shows status warning with
\* isAnalyzing false; the next tick can start a fresh request.
C26_FailureNotRetried ==
    /\ [][\A r \in inflight :
              (Resolved(r) /\ lastOutcome' \in FailureKinds) =>
                  /\ issued' = issued
                  /\ inflight' = inflight \ {r}
                  /\ isActive' = isActive
                  /\ streamRef' = streamRef
                  /\ intervalRef' = intervalRef /\ initTimeout' = initTimeout
                  /\ mounted => /\ state'.status = "warning"
                                /\ ~state'.isAnalyzing
                                /\ state'.error = lastOutcome']_vars
    /\ []((/\ lastOutcome \in FailureKinds
           /\ mounted /\ intervalRef /\ CanCapture
           /\ issued < MaxRequests) =>
              ENABLED (intervalFires /\ issued' = issued + 1))

\* C26 witness: after a failed cycle a tick started a fresh request.
C26_Witness ==
    /\ isActive
    /\ state.status = "analyzing"
    /\ state.error \in FailureKinds
    /\ issued = 2
    /\ Cardinality(inflight) = 1

\* C27: while the component is mounted, state.isAnalyzing is true, and
\* state.status is "analyzing", exactly when a classification call is in
\* flight.
C27_AnalyzingTracksInFlight ==
    mounted =>
        /\ state.isAnalyzing <=> inflight # {}
        /\ state.isAnalyzing <=> state.status = "analyzing"

\* C28: at most one unreleased stream exists at any time, and once every
\* pending acquisition has resolved and the session is stopped or the
\* component unmounted, no live stream remains and isActive is false.
C28_NoDeviceLeak ==
    /\ Cardinality(liveStreams) <= 1
    /\ (pendingStarts = 0 /\ (~mounted \/ ~isActive)) =>
           (liveStreams = {} /\ ~isActive)

\* C29: a report has riskScore 0 exactly when its anomalyFlags are empty, and
\* the snapshot's anomalyFlags is true exactly when its riskScore is above 0.
C29_ScoreAndFlagsAgree ==
    /\ issued = 0 =>
           \A r \in AllReplies, p \in AllPriors :
               LET report == Serve(r, p)
               IN (report.riskScore = 0) <=> (report.anomalyFlags = <<>>)
    /\ lastResult.ok => ((lastResult.riskScore = 0) <=> (lastResult.anomalyFlags = <<>>))
    /\ getVoteRiskData.anomalyFlags <=> (getVoteRiskData.riskScore > 0)
    /\ lastRiskUpdate.anomalyFlags <=> (lastRiskUpdate.riskScore > 0)

\* C29 witness: a clean report was folded into a session that holds flags.
C29_Witness ==
    /\ riskUpdates = 2
    /\ lastResult.ok /\ lastResult.anomalyFlags = <<>>
    /\ lastRiskUpdate.anomalyFlags
    /\ lastRiskUpdate.riskScore = 30

\* C30: the per-cycle state has environmentStable false whenever the cycle's
\* flags hold "Environment instability detected".
C30_EnvironmentIndicatorAgrees ==
    ("Environment instability detected" \in SeqToSet(state.anomalyFlags)) =>
        ~state.environmentStable

====
